---- MODULE Spec2Model ----
(***************************************************************************)
(* A2A server (src/src/server.ts): the JSON-RPC endpoint POST /, the       *)
(* manually registered REST endpoint POST /message/send, the executor that *)
(* drives the workflow engine, the per-request SimpleExecutionEventBus and *)
(* the agent card builder.                                                 *)
(*                                                                         *)
(* JavaScript values are records [t, v]: t is the type tag and v the       *)
(* string the value converts to (String(x)).  Texts are strings; \o is     *)
(* string concatenation.                                                   *)
(***************************************************************************)
EXTENDS Integers, Sequences, FiniteSets, TLC

VARIABLES
  reqs,       \* the requests received so far, in order of arrival
  pc,         \* per request: "invoking" | "done" | "rejected"
  ctx,        \* per request: the handler's locals (taskId, contextId, bus)
  buses,      \* the heap of SimpleExecutionEventBus objects
  calls,      \* per request: the workflow.invoke calls made for it
  resp,       \* per request: the responses written with res.json
  clock,      \* the last value read from Date.now()
  workflowConfig,  \* the loaded workflow configuration
  agentCard,  \* the agent card built at startup
  taskStore,  \* the tasks saved in the InMemoryTaskStore
  process     \* the Node.js process and its HTTP server

vars ==
  <<reqs, pc, ctx, buses, calls, resp, clock, workflowConfig, agentCard,
    taskStore, process>>

----------------------------------------------------------------------------
(* Bounds *)

MaxReq == 2      \* requests received in one run
MaxClock == 1    \* Date.now() ranges over 0..MaxClock
MaxEvents == 3   \* events published to one bus in the bus specification

----------------------------------------------------------------------------
(* JavaScript values *)

Undefined == [t |-> "undefined", v |-> ""]
Null == [t |-> "null", v |-> ""]
Str(s) == [t |-> "string", v |-> s]
Num(s) == [t |-> "number", v |-> s]
Bool(s) == [t |-> "boolean", v |-> s]
Arr(s) == [t |-> "array", v |-> s]

\* ToBoolean: the test made by !x, x || y and if (x)
Truthy(x) ==
  CASE x.t = "undefined" -> FALSE
    [] x.t = "null"      -> FALSE
    [] x.t = "string"    -> x.v # ""
    [] x.t = "number"    -> x.v \notin {"0", "NaN"}
    [] x.t = "boolean"   -> x.v = "true"
    [] OTHER             -> TRUE

\* a || b
Or(a, b) == IF Truthy(a) THEN a ELSE b

\* the element of Array.prototype.join for one value: undefined and null
\* give the empty string
JoinElem(x) == IF x.t \in {"undefined", "null"} THEN "" ELSE x.v

\* texts.join(" ") for a sequence of strings
RECURSIVE Join(_)
Join(texts) ==
  IF Len(texts) = 0 THEN ""
  ELSE IF Len(texts) = 1 THEN texts[1]
  ELSE texts[1] \o " " \o Join(Tail(texts))

\* String.prototype.trim
RECURSIVE TrimStart(_)
TrimStart(s) ==
  IF Len(s) > 0 /\ SubSeq(s, 1, 1) = " " THEN TrimStart(SubSeq(s, 2, Len(s)))
  ELSE s

RECURSIVE TrimEnd(_)
TrimEnd(s) ==
  IF Len(s) > 0 /\ SubSeq(s, Len(s), Len(s)) = " "
  THEN TrimEnd(SubSeq(s, 1, Len(s) - 1))
  ELSE s

Trim(s) == TrimEnd(TrimStart(s))

\* IsTextPart with a fault: the type field of a part is not looked at
IsTextPartKindOnly(p) == p.kind = "text"

\* (p) => p.kind === "text" || p.type === "text"
IsTextPart(p) == p.kind = "text" \/ p.type = "text"

\* parts.filter(isText).map(p => p.text).join(" ")
PartsText(parts) ==
  LET textParts == SelectSeq(parts, IsTextPart)
  IN Join([i \in 1..Len(textParts) |-> JoinElem(textParts[i].text)])

\* String(x)
String(x) ==
  CASE x.t = "undefined" -> "undefined"
    [] x.t = "null"      -> "null"
    [] OTHER             -> x.v

----------------------------------------------------------------------------
(* SimpleExecutionEventBus *)

NoEvent ==
  [kind |-> "", role |-> "", messageId |-> "", hasParts |-> FALSE,
   parts |-> <<>>]

\* new SimpleExecutionEventBus(): responseText = "" and nothing emitted
SimpleExecutionEventBus == [responseText |-> "", emitted |-> <<>>]

\* publish with a fault: the role of the event is not tested
publishAnyRole(bus, event) ==
  LET textParts == IF event.hasParts
                   THEN SelectSeq(event.parts, IsTextPart) ELSE <<>>
  IN [responseText |->
        IF event.kind = "message" /\ Len(textParts) > 0
        THEN bus.responseText \o PartsText(event.parts)
        ELSE bus.responseText,
      emitted |-> Append(bus.emitted, [name |-> "event", event |-> event])]

\* publish(event): an event with parts absent has textParts undefined
publish(bus, event) ==
  LET textParts == IF event.hasParts
                   THEN SelectSeq(event.parts, IsTextPart) ELSE <<>>
  IN [responseText |->
        IF event.kind = "message" /\ event.role = "agent"
           /\ Len(textParts) > 0
        THEN bus.responseText \o PartsText(event.parts)
        ELSE bus.responseText,
      emitted |-> Append(bus.emitted, [name |-> "event", event |-> event])]

\* finished()
finished(bus) ==
  [bus EXCEPT !.emitted = Append(@, [name |-> "finished", event |-> NoEvent])]

\* getResponse()
getResponse(bus) == bus.responseText

----------------------------------------------------------------------------
(* The agent card *)

DefaultPort == 3000

\* `http://localhost:${port}/`
LocalUrl(port) == Str("http://localhost:" \o ToString(port) \o "/")

\* configCard.capabilities?.[flag]
CapabilityOf(configCard, flag) ==
  IF configCard.hasCapabilities THEN configCard.capabilities[flag]
  ELSE Undefined

\* buildAgentCardFromConfig with a fault: the explicit card's protocolVersion
\* is copied without its "0.3.0" default
buildAgentCardNoProtocolDefault(config, port) ==
  LET a2aConfig == config.a2aEndpoint
      configCard == a2aConfig.agentCard
  IN IF a2aConfig.hasAgentCard
     THEN [name |-> configCard.name,
           description |-> configCard.description,
           protocolVersion |-> configCard.protocolVersion,
           version |-> Or(configCard.version, Str("1.0.0")),
           url |-> Or(configCard.url, LocalUrl(port)),
           defaultInputModes |->
             Or(configCard.defaultInputModes, Arr("text/plain")),
           defaultOutputModes |->
             Or(configCard.defaultOutputModes, Arr("text/plain")),
           capabilities |->
             [streaming |->
                Or(CapabilityOf(configCard, "streaming"), Bool("false")),
              pushNotifications |->
                Or(CapabilityOf(configCard, "pushNotifications"),
                   Bool("false")),
              stateTransitionHistory |->
                Or(CapabilityOf(configCard, "stateTransitionHistory"),
                   Bool("true"))],
           skills |-> Or(configCard.skills, Arr(""))]
     ELSE [name |-> Or(a2aConfig.name, Or(config.name, Str("WorkflowAgent"))),
           description |->
             Or(a2aConfig.description,
                Or(config.description,
                   Str("A workflow agent that processes tasks through multiple steps"))),
           protocolVersion |-> Str("0.3.0"),
           version |-> Str("1.0.0"),
           url |-> LocalUrl(port),
           defaultInputModes |-> Arr("text/plain"),
           defaultOutputModes |-> Arr("text/plain"),
           capabilities |-> [streaming |-> Bool("false"),
                             pushNotifications |-> Bool("false"),
                             stateTransitionHistory |-> Bool("true")],
           skills |-> Arr("")]

\* buildAgentCardFromConfig(workflowConfig, port); config is
\* workflowConfig.config, and an absent a2aEndpoint is one whose fields are
\* all undefined
buildAgentCardFromConfig(config, port) ==
  LET a2aConfig == config.a2aEndpoint
      configCard == a2aConfig.agentCard
  IN IF a2aConfig.hasAgentCard
     THEN [name |-> configCard.name,
           description |-> configCard.description,
           protocolVersion |-> Or(configCard.protocolVersion, Str("0.3.0")),
           version |-> Or(configCard.version, Str("1.0.0")),
           url |-> Or(configCard.url, LocalUrl(port)),
           defaultInputModes |->
             Or(configCard.defaultInputModes, Arr("text/plain")),
           defaultOutputModes |->
             Or(configCard.defaultOutputModes, Arr("text/plain")),
           capabilities |->
             [streaming |->
                Or(CapabilityOf(configCard, "streaming"), Bool("false")),
              pushNotifications |->
                Or(CapabilityOf(configCard, "pushNotifications"),
                   Bool("false")),
              stateTransitionHistory |->
                Or(CapabilityOf(configCard, "stateTransitionHistory"),
                   Bool("true"))],
           skills |-> Or(configCard.skills, Arr(""))]
     ELSE [name |-> Or(a2aConfig.name, Or(config.name, Str("WorkflowAgent"))),
           description |->
             Or(a2aConfig.description,
                Or(config.description,
                   Str("A workflow agent that processes tasks through multiple steps"))),
           protocolVersion |-> Str("0.3.0"),
           version |-> Str("1.0.0"),
           url |-> LocalUrl(port),
           defaultInputModes |-> Arr("text/plain"),
           defaultOutputModes |-> Arr("text/plain"),
           capabilities |-> [streaming |-> Bool("false"),
                             pushNotifications |-> Bool("false"),
                             stateTransitionHistory |-> Bool("true")],
           skills |-> Arr("")]

\* workflowConfig.config?.a2aEndpoint?.port || 3000; port 0 is an absent port
PortOf(config) ==
  IF config.a2aEndpoint.port = 0 THEN DefaultPort ELSE config.a2aEndpoint.port

----------------------------------------------------------------------------
(* The executor: agentExecutor.execute around workflow.invoke *)

\* A value returned or thrown by workflow.invoke: [t, v] as above, with
\* hasMessages and messages for an object that has a messages array and json
\* for JSON.stringify(value, null, 2).  A thrown Error has t = "Error" and
\* its message in v.
EngineValue(t, v, json) ==
  [t |-> t, v |-> v, hasMessages |-> FALSE, messages |-> <<>>, json |-> json]

\* an object { messages: [...] }; an entry is a string or an object with a
\* content field
MessagesResult(messages, json) ==
  [t |-> "object", v |-> "[object Object]", hasMessages |-> TRUE,
   messages |-> messages, json |-> json]

StringEntry(s) == [t |-> "string", v |-> s, content |-> Undefined]
ObjectEntry(content) ==
  [t |-> "object", v |-> "[object Object]", content |-> content]

JsValue(x) == [t |-> x.t, v |-> x.v]

\* textContent of execute: parts?.filter(...).map(...).join(" ").trim(),
\* undefined when the message has no parts array
TextContent(userMessage) ==
  IF userMessage.hasParts THEN Str(Trim(PartsText(userMessage.parts)))
  ELSE Undefined

\* the input of workflow.invoke: { messages: [{ role: "user", content }] }
InvokeInput(content) == <<[role |-> "user", content |-> content]>>

\* ResponseTextOf with a fault: a result that is neither a string nor an
\* object gives the empty text
ResponseTextOfObjectsOnly(result) ==
  IF result.t = "string" THEN JsValue(result)
  ELSE IF Truthy(JsValue(result)) /\ result.t \in {"object", "array"}
  THEN IF result.hasMessages
       THEN IF Len(result.messages) = 0 THEN Str(result.json)
            ELSE LET lastMessage == result.messages[Len(result.messages)]
                 IN IF lastMessage.t = "string" THEN JsValue(lastMessage)
                    ELSE Or(lastMessage.content, Str(result.json))
       ELSE Str(result.json)
  ELSE Str("")

\* the response text extracted from the result of workflow.invoke
\* (execute, "Extract response text from result")
ResponseTextOf(result) ==
  IF result.t = "string" THEN JsValue(result)
  ELSE IF Truthy(JsValue(result)) /\ result.t \in {"object", "array"}
  THEN IF result.hasMessages
       THEN IF Len(result.messages) = 0 THEN Str(result.json)
            ELSE LET lastMessage == result.messages[Len(result.messages)]
                 IN IF lastMessage.t = "string" THEN JsValue(lastMessage)
                    ELSE Or(lastMessage.content, Str(result.json))
       ELSE Str(result.json)
  ELSE Str(String(JsValue(result)))

\* the agent message published by execute
AgentMessage(messageId, text) ==
  [kind |-> "message", role |-> "agent", messageId |-> messageId,
   hasParts |-> TRUE,
   parts |-> <<[kind |-> "text", type |-> "", text |-> text]>>]

\* FailureMessage with a fault: error.message is read of every thrown value
FailureMessageOfAnything(error) ==
  IF error.t = "Error" THEN error.v ELSE "undefined"

\* error instanceof Error ? error.message : String(error)
FailureMessage(error) ==
  IF error.t = "Error" THEN error.v ELSE String(JsValue(error))

\* executeReturn with a fault: the response is published and finished() is
\* not called
executeReturnUnfinished(bus, result, now) ==
  publish(bus, AgentMessage("msg-" \o ToString(now), ResponseTextOf(result)))

\* execute after workflow.invoke returned: publish the response, finished()
executeReturn(bus, result, now) ==
  finished(publish(bus, AgentMessage("msg-" \o ToString(now),
                                     ResponseTextOf(result))))

\* execute after workflow.invoke threw: publish the error, finished(); the
\* error is thrown again to the caller
executeCatch(bus, error, now) ==
  finished(publish(bus, AgentMessage("error-" \o ToString(now),
                                     Str("Error: " \o FailureMessage(error)))))

\* error.message as read by a catch block
MessageOf(error) == IF error.t = "Error" THEN Str(error.v) ELSE Undefined

\* reading a property of null or undefined throws a TypeError
PropertyReadThrows(error) == error.t \in {"null", "undefined"}

----------------------------------------------------------------------------
(* Requests and responses *)

UndefinedMessage == [t |-> "undefined", hasParts |-> FALSE, parts |-> <<>>]
NullMessage == [t |-> "null", hasParts |-> FALSE, parts |-> <<>>]
\* a message object without a parts field
BareMessage == [t |-> "object", hasParts |-> FALSE, parts |-> <<>>]
Message(parts) == [t |-> "object", hasParts |-> TRUE, parts |-> parts]

TextPart(s) == [kind |-> "text", type |-> "", text |-> Str(s)]
FilePart == [kind |-> "file", type |-> "", text |-> Undefined]

\* the body of POST /: { jsonrpc, id, method, params }
JsonRpcRequestBody(id, method, hasParams, message, contextId) ==
  [proto |-> "rpc", id |-> id, method |-> method, hasParams |-> hasParams,
   message |-> message, contextId |-> contextId, sessionId |-> Undefined]

\* the body of POST /message/send: { message, sessionId }
RestRequestBody(message, sessionId) ==
  [proto |-> "rest", id |-> Undefined, method |-> Undefined,
   hasParams |-> FALSE, message |-> message, contextId |-> Undefined,
   sessionId |-> sessionId]

\* params?.message and params?.contextId
ParamsMessage(req) == IF req.hasParams THEN req.message ELSE UndefinedMessage
ParamsContextId(req) == IF req.hasParams THEN req.contextId ELSE Undefined

\* res.json(body): JSON.stringify leaves out a key whose value is undefined
JsonRpcResponse(id, key, payload) ==
  IF id = Undefined THEN (key :> payload) @@ [jsonrpc |-> "2.0"]
  ELSE (key :> payload) @@ [jsonrpc |-> "2.0", id |-> id]

\* JsonRpcError with a fault: the error envelope is sent with a null id
JsonRpcErrorNullId(id, code, message) ==
  [status |-> 200,
   body |-> JsonRpcResponse(Null, "error",
                            [code |-> code, message |-> message])]

JsonRpcError(id, code, message) ==
  [status |-> 200,
   body |-> JsonRpcResponse(id, "error", [code |-> code, message |-> message])]

JsonRpcResult(id, result) ==
  [status |-> 200, body |-> JsonRpcResponse(id, "result", result)]

\* RpcBranch with a fault: the card method is tested under another name
RpcBranchCardRenamed(method) ==
  IF method = Str("message/send") THEN "message/send"
  ELSE IF method = Str("agent/getExtendedCard") THEN "card"
  ELSE "notfound"

\* RpcBranch with a fault: a request without a method is handled as
\* message/send
RpcBranchDefaultSend(method) ==
  IF method = Str("message/send") \/ method = Undefined THEN "message/send"
  ELSE IF method = Str("agent/getAuthenticatedExtendedCard") THEN "card"
  ELSE "notfound"

\* the if / else-if chain on method of app.post("/")
RpcBranch(method) ==
  IF method = Str("message/send") THEN "message/send"
  ELSE IF method = Str("agent/getAuthenticatedExtendedCard") THEN "card"
  ELSE "notfound"

\* MessageMissing with a fault: only an undefined message is rejected
MessageUndefined(message) == message.t = "undefined"

\* !message
MessageMissing(message) == message.t \in {"undefined", "null"}

\* TaskIdOf with a fault: the identifier is built without Date.now()
TaskIdOfNoClock(now, random) == "task-" \o random

\* `task-${Date.now()}-${Math.random().toString(36).substring(2, 11)}`
TaskIdOf(now, random) == "task-" \o ToString(now) \o "-" \o random

\* ContextIdOf with a fault: the contextId of the params is taken as it is
ContextIdOfParams(req, taskId) == ParamsContextId(req)

\* contextId: params?.contextId || taskId
ContextIdOf(req, taskId) == Or(ParamsContextId(req), Str(taskId))

\* NewEventBus with a fault: one bus object is kept and handed out again
NewEventBusShared(heap) ==
  IF Len(heap) = 0 THEN Append(heap, SimpleExecutionEventBus) ELSE heap

\* new SimpleExecutionEventBus(): the heap with the new object as its last
\* element
NewEventBus(heap) == Append(heap, SimpleExecutionEventBus)

NoCtx == [taskId |-> "", contextId |-> Undefined, bus |-> 0]

Pending == [t |-> "pending", value |-> EngineValue("undefined", "", "")]

\* one workflow.invoke call: its run configuration, its input and, once the
\* call has completed, its outcome
InvokeCall(thread_id, content) ==
  [thread_id |-> thread_id, messages |-> InvokeInput(content),
   outcome |-> Pending]

----------------------------------------------------------------------------
(* Inputs *)

Ids == {Undefined, Null, Num("1"), Str("req-7")}

Hello == Message(<<TextPart("hello")>>)

\* the bodies POSTed to /
RpcRequests ==
  {JsonRpcRequestBody(id, method, FALSE, UndefinedMessage, Undefined) :
     id \in Ids,
     method \in {Str("agent/getAuthenticatedExtendedCard"), Str("tasks/get"),
                 Undefined, Str("message/send")}}
  \cup
  {JsonRpcRequestBody(id, Str("message/send"), TRUE, message, Undefined) :
     id \in Ids, message \in {UndefinedMessage, NullMessage}}
  \cup
  {JsonRpcRequestBody(id, Str("agent/getAuthenticatedExtendedCard"), TRUE,
                      message, contextId) :
     id \in Ids, message \in {UndefinedMessage, Hello},
     contextId \in {Undefined, Str("ctx-1")}}
  \cup
  {JsonRpcRequestBody(id, Str("message/send"), TRUE, message, contextId) :
     id \in Ids,
     message \in {Hello, BareMessage, Message(<<FilePart, TextPart(" a")>>)},
     contextId \in {Undefined, Str(""), Str("ctx-1"), Str("default")}}
  \cup
  {JsonRpcRequestBody(id, Str("message/send"), TRUE, message, contextId) :
     id \in Ids,
     message \in {Message(<<>>), Message(<<FilePart>>),
                  Message(<<TextPart(" ")>>)},
     contextId \in {Undefined, Str("ctx-1")}}

\* the bodies POSTed to /message/send
RestRequests ==
  {RestRequestBody(message, Undefined) :
     message \in {UndefinedMessage, NullMessage, BareMessage, Message(<<>>),
                  Message(<<TextPart(" ")>>), Message(<<FilePart>>),
                  Message(<<FilePart, TextPart(""), TextPart(" ")>>)}}
  \cup
  {RestRequestBody(Message(<<TextPart("hello"), TextPart("there ")>>),
                   sessionId) :
     sessionId \in {Undefined, Str("s-1")}}

\* the suffixes Math.random() yields
RandomSuffixes == {"k3x9q2m7a", "b"}

\* what workflow.invoke returns
EngineResults ==
  {EngineValue("string", "world", "\"world\""),
   MessagesResult(<<StringEntry("q"), ObjectEntry(Str("hi"))>>,
                  "{\"messages\":[\"q\",{\"content\":\"hi\"}]}"),
   EngineValue("object", "[object Object]", "{\"answer\":42}"),
   MessagesResult(<<ObjectEntry([t |-> "object", v |-> "[object Object]"])>>,
                  "{\"messages\":[{\"content\":{\"text\":\"hi\"}}]}"),
   MessagesResult(<<ObjectEntry(Arr("[object Object]"))>>,
                  "{\"messages\":[{\"content\":[{\"type\":\"text\",\"text\":\"hi\"}]}]}"),
   MessagesResult(<<>>, "{\"messages\":[]}"),
   EngineValue("array", "1,2", "[1,2]"),
   EngineValue("number", "42", "42"),
   EngineValue("number", "NaN", "null"),
   EngineValue("boolean", "false", "false"),
   EngineValue("null", "", "null"),
   EngineValue("undefined", "", "")}

\* what workflow.invoke throws
ThrownValues ==
  {EngineValue("Error", "boom", ""),
   EngineValue("Error", "", ""),
   EngineValue("string", "oops", "\"oops\""),
   EngineValue("null", "", "null"),
   EngineValue("undefined", "", "")}

\* the inputs of the concurrent runs
ConcurrentRpcRequests ==
  {JsonRpcRequestBody(Num("1"), Str("agent/getAuthenticatedExtendedCard"),
                      FALSE, UndefinedMessage, Undefined),
   JsonRpcRequestBody(Str("req-7"), Str("agent/getAuthenticatedExtendedCard"),
                      TRUE, Hello, Str("ctx-1")),
   JsonRpcRequestBody(Undefined, Str("tasks/get"), FALSE, UndefinedMessage,
                      Undefined),
   JsonRpcRequestBody(Str("req-7"), Str("message/send"), FALSE,
                      UndefinedMessage, Undefined),
   JsonRpcRequestBody(Num("1"), Str("message/send"), TRUE, Hello, Undefined),
   JsonRpcRequestBody(Str("req-7"), Str("message/send"), TRUE, Hello,
                      Str("ctx-1"))}

ConcurrentRestRequests ==
  {RestRequestBody(Message(<<>>), Undefined),
   RestRequestBody(Hello, Undefined)}

ConcurrentResults ==
  {r \in EngineResults :
     \/ r.t = "string"
     \/ r.hasMessages /\ ResponseTextOf(r).t = "string"
                      /\ ResponseTextOf(r).v # r.json}

ConcurrentThrown == {e \in ThrownValues : e.t = "Error" /\ e.v # ""}

\* the events published to a bus on its own
BusParts ==
  {<<TextPart("a")>>,
   <<TextPart("a"), TextPart("b")>>,
   <<FilePart, [kind |-> "", type |-> "text", text |-> Str("c")]>>,
   <<FilePart>>}

BusEvents ==
  {[kind |-> kind, role |-> role, messageId |-> "m", hasParts |-> TRUE,
    parts |-> parts] :
     kind \in {"message", "status-update"}, role \in {"agent", "user"},
     parts \in BusParts}
  \cup
  {[kind |-> "message", role |-> "agent", messageId |-> "m",
    hasParts |-> hasParts, parts |-> <<>>] : hasParts \in BOOLEAN}

\* the agentCard sections of the configurations
ConfigCards ==
  [name : {Undefined, Str("Research Agent")},
   description : {Undefined, Str("Runs research")},
   protocolVersion : {Undefined, Str("0.2.5")},
   version : {Undefined, Str("2.1.0")},
   url : {Undefined, Str("https://agent.example/")},
   defaultInputModes : {Undefined, Arr(""), Arr("application/json")},
   defaultOutputModes : {Undefined, Arr("application/json")},
   hasCapabilities : {TRUE},
   capabilities : [streaming : {Undefined, Bool("true"), Bool("false")},
                   pushNotifications : {Undefined, Bool("true"), Bool("false")},
                   stateTransitionHistory :
                     {Undefined, Bool("true"), Bool("false")}],
   skills : {Undefined, Arr("[object Object]")}]
  \cup
  [name : {Str("Research Agent")},
   description : {Undefined, Str("Runs research")},
   protocolVersion : {Undefined, Null, Str(""), Str("0.2.5")},
   version : {Str("2.1.0")},
   url : {Undefined},
   defaultInputModes : {Undefined, Null},
   defaultOutputModes : {Null, Arr("application/json")},
   hasCapabilities : {FALSE},
   capabilities : [streaming : {Undefined}, pushNotifications : {Undefined},
                   stateTransitionHistory : {Undefined}],
   skills : {Undefined, Arr("[object Object]")}]

\* the configurations the card is built from (workflowConfig.config)
Configs ==
  [name : {Undefined, Str("research")},
   description : {Undefined, Str("top-level description")},
   a2aEndpoint :
     [name : {Undefined, Str("endpoint")},
      description : {Undefined},
      port : {0, 8080},
      hasAgentCard : {TRUE},
      agentCard : ConfigCards]]
  \cup
  [name : {Undefined, Str("research")},
   description : {Undefined, Str("top-level description")},
   a2aEndpoint :
     [name : {Undefined, Str("endpoint")},
      description : {Undefined, Str("endpoint description")},
      port : {0, 8080},
      hasAgentCard : {FALSE},
      agentCard : {c \in ConfigCards :
                     \A f \in DOMAIN c \ {"hasCapabilities", "capabilities"} :
                       c[f] = Undefined}]]

\* the configuration the server is started with
ServerConfig ==
  [name |-> Str("research"), description |-> Undefined,
   a2aEndpoint |->
     [name |-> Undefined, description |-> Undefined, port |-> 0,
      hasAgentCard |-> FALSE,
      agentCard |->
        [name |-> Undefined, description |-> Undefined,
         protocolVersion |-> Undefined, version |-> Undefined,
         url |-> Undefined, defaultInputModes |-> Undefined,
         defaultOutputModes |-> Undefined, hasCapabilities |-> FALSE,
         capabilities |-> [streaming |-> Undefined,
                           pushNotifications |-> Undefined,
                           stateTransitionHistory |-> Undefined],
         skills |-> Undefined]]]

----------------------------------------------------------------------------
(* The server *)

\* The process once configuredApp.listen(port, ...) has been called: state is
\* "starting" until the listener is bound, then "listening", "closing" after
\* server.close() and "exited" after process.exit(); exitCode is -1 while
\* the process runs.  listens counts the calls of listen, error is the code
\* of the server's "error" event and signal the termination signal received.
Starting ==
  [state |-> "starting", exitCode |-> -1, listens |-> 1, error |-> "",
   signal |-> ""]

\* the listener is bound and the callback of listen has run
Listening == [Starting EXCEPT !.state = "listening"]

\* process.exit(code)
exit(proc, code) == [proc EXCEPT !.state = "exited", !.exitCode = code]

\* what Node.js does with a rejected promise nobody handles: a warning, or
\* (the default since Node.js 15) an uncaught exception that ends the
\* process with code 1
UnhandledRejections == {"warn", "throw"}

unhandledRejection(proc, mode) ==
  IF mode = "throw" THEN exit(proc, 1) ELSE proc

\* new InMemoryTaskStore(): the tasks saved so far, none at construction.
\* The store is handed to the DefaultRequestHandler only; no route handler of
\* the server saves a task to it or reads one from it.
InMemoryTaskStore == {}

\* after runA2AServer has built the card and started listening
Init ==
  /\ reqs = <<>>
  /\ pc = <<>>
  /\ ctx = <<>>
  /\ buses = <<>>
  /\ calls = <<>>
  /\ resp = <<>>
  /\ clock = 0
  /\ taskStore = InMemoryTaskStore
  /\ process = Listening
  /\ workflowConfig = ServerConfig
  /\ agentCard = <<buildAgentCardFromConfig(workflowConfig,
                                            PortOf(workflowConfig))>>

\* Accept with a fault: the handler creates its event bus on entry, before
\* it validates the request
AcceptBusOnEntry(req, p, c, heap, cs, rs) ==
  /\ process.state = "listening"
  /\ reqs' = Append(reqs, req)
  /\ pc' = Append(pc, p)
  /\ ctx' = Append(ctx, c)
  /\ buses' = IF p = "done" THEN NewEventBus(heap) ELSE heap
  /\ calls' = Append(calls, cs)
  /\ resp' = Append(resp, rs)
  /\ UNCHANGED <<clock, workflowConfig, taskStore, process, agentCard>>

\* a request arrives and its handler runs up to its first await or to its
\* response
Accept(req, p, c, heap, cs, rs) ==
  /\ process.state = "listening"
  /\ reqs' = Append(reqs, req)
  /\ pc' = Append(pc, p)
  /\ ctx' = Append(ctx, c)
  /\ buses' = heap
  /\ calls' = Append(calls, cs)
  /\ resp' = Append(resp, rs)
  /\ UNCHANGED <<clock, workflowConfig, taskStore, process, agentCard>>

\* Complete with a fault: a call of workflow.invoke that threw is made again
CompleteWithRetry(i, p, heap, outcome, rs) ==
  /\ process.state # "exited"
  /\ pc' = [pc EXCEPT ![i] = IF outcome.t = "throw" THEN "invoking" ELSE p]
  /\ buses' = heap
  /\ calls' = [calls EXCEPT
                ![i] = IF outcome.t = "throw"
                       THEN Append([@ EXCEPT ![Len(@)].outcome = outcome],
                                   [@[Len(@)] EXCEPT !.outcome = Pending])
                       ELSE [@ EXCEPT ![Len(@)].outcome = outcome]]
  /\ resp' = [resp EXCEPT
               ![i] = IF outcome.t = "throw" THEN @ ELSE @ \o rs]
  /\ UNCHANGED <<reqs, ctx, clock, workflowConfig, taskStore, process,
                 agentCard>>

\* the handler of request i resumes after workflow.invoke and completes
Complete(i, p, heap, outcome, rs) ==
  /\ process.state # "exited"
  /\ pc' = [pc EXCEPT ![i] = p]
  /\ buses' = heap
  /\ calls' = [calls EXCEPT ![i][Len(calls[i])].outcome = outcome]
  /\ resp' = [resp EXCEPT ![i] = @ \o rs]
  /\ UNCHANGED <<reqs, ctx, clock, workflowConfig, taskStore, process,
                 agentCard>>

\* the catch block of the handler of request i throws: the handler's promise
\* is rejected, no response is written, and nobody handles the rejection
Reject(i, heap, outcome) ==
  \E mode \in UnhandledRejections :
    /\ process.state # "exited"
    /\ pc' = [pc EXCEPT ![i] = "rejected"]
    /\ buses' = heap
    /\ calls' = [calls EXCEPT ![i][Len(calls[i])].outcome = outcome]
    /\ process' = unhandledRejection(process, mode)
    /\ UNCHANGED <<reqs, ctx, resp, clock, workflowConfig, taskStore,
                   agentCard>>

\* app.post("/"), up to `await workflow.invoke(...)` inside execute
JsonRpcRequest(requests) ==
  \E req \in requests, random \in RandomSuffixes :
    LET branch == RpcBranch(req.method)
        taskId == TaskIdOf(clock, random)
        message == ParamsMessage(req)
        requestContext ==
          [taskId |-> taskId, contextId |-> ContextIdOf(req, taskId),
           bus |-> Len(NewEventBus(buses))]
    IN IF branch = "message/send"
       THEN IF MessageMissing(message)
            THEN Accept(req, "done", NoCtx, buses, <<>>,
                        <<JsonRpcError(req.id, -32602,
                            "Invalid params: message is required")>>)
            ELSE Accept(req, "invoking", requestContext, NewEventBus(buses),
                        <<InvokeCall(
                            Or(requestContext.contextId, Str("default")),
                            String(Or(TextContent(message), Str(""))))>>,
                        <<>>)
       ELSE IF branch = "card"
       THEN Accept(req, "done", NoCtx, buses, <<>>,
                   <<JsonRpcResult(req.id, agentCard[1])>>)
       ELSE Accept(req, "done", NoCtx, buses, <<>>,
                   <<JsonRpcError(req.id, -32601,
                       "Method not found: " \o String(req.method))>>)

\* workflow.invoke returns: execute publishes the response text and signals
\* finished, and app.post("/") sends the result envelope
JsonRpcEngineReturn(results) ==
  \E i \in 1..Len(reqs), result \in results :
    /\ pc[i] = "invoking"
    /\ reqs[i].proto = "rpc"
    /\ LET eventBus == executeReturn(buses[ctx[i].bus], result, clock)
       IN Complete(i, "done", [buses EXCEPT ![ctx[i].bus] = eventBus],
                   [t |-> "return", value |-> result],
                   <<JsonRpcResult(reqs[i].id,
                       [taskId |-> ctx[i].taskId,
                        result |-> getResponse(eventBus),
                        thread_id |-> ctx[i].contextId])>>)

\* workflow.invoke throws: the catch of execute publishes the error, signals
\* finished and throws again; the catch of app.post("/") sends -32603, and its
\* read of error.message throws when the thrown value is null or undefined
JsonRpcEngineThrow(errors) ==
  \E i \in 1..Len(reqs), error \in errors :
    /\ pc[i] = "invoking"
    /\ reqs[i].proto = "rpc"
    /\ LET eventBus == executeCatch(buses[ctx[i].bus], error, clock)
           heap == [buses EXCEPT ![ctx[i].bus] = eventBus]
           outcome == [t |-> "throw", value |-> error]
       IN IF PropertyReadThrows(error)
          THEN Reject(i, heap, outcome)
          ELSE Complete(i, "done", heap, outcome,
                 <<JsonRpcError(reqs[i].id, -32603,
                     String(Or(MessageOf(error), Str("Internal error"))))>>)

\* the text of the REST response:
\* typeof result === "string" ? result : JSON.stringify(result, null, 2);
\* JSON.stringify(undefined) is undefined
RestResultText(result) ==
  IF result.t = "string" THEN JsValue(result)
  ELSE IF result.t = "undefined" THEN Undefined
  ELSE Str(result.json)

\* res.status(status).json(body) of POST /message/send
RestError(status, error) == [status |-> status, body |-> [error |-> error]]

RestFailure(message) ==
  [status |-> 500,
   body |-> IF message = Undefined THEN [error |-> "Internal server error"]
            ELSE [error |-> "Internal server error", message |-> message]]

RestSuccess(now, text) ==
  [status |-> 200,
   body |-> [messageId |-> "msg-" \o ToString(now),
             parts |-> <<IF text = Undefined THEN [kind |-> "text"]
                         ELSE [kind |-> "text", text |-> text]>>]]

\* InvalidMessageFormat with a fault: the length of parts is not tested
InvalidMessageFormatAnyLength(message) ==
  MessageMissing(message) \/ ~message.hasParts

\* !message || !message.parts || message.parts.length === 0
InvalidMessageFormat(message) ==
  MessageMissing(message) \/ ~message.hasParts \/ Len(message.parts) = 0

\* RestTextContent with a fault: the joined text is not trimmed
RestTextContentUntrimmed(message) == PartsText(message.parts)

\* textContent of POST /message/send:
\* message.parts.filter(...).map(...).join(" ").trim()
RestTextContent(message) == Trim(PartsText(message.parts))

\* POST /message/send, up to `await workflow.invoke(...)`
RestMessageSend(requests) ==
  \E req \in requests :
    LET message == req.message
        textContent == RestTextContent(message)
    IN IF InvalidMessageFormat(message)
       THEN Accept(req, "done", NoCtx, buses, <<>>,
                   <<RestError(400, "Invalid message format")>>)
       ELSE IF textContent = ""
       THEN Accept(req, "done", NoCtx, buses, <<>>,
                   <<RestError(400, "No text content found in message")>>)
       ELSE Accept(req, "invoking", NoCtx, buses,
                   <<InvokeCall(Or(req.sessionId, Str("default")),
                                textContent)>>,
                   <<>>)

\* workflow.invoke returns to POST /message/send
RestEngineReturn(results) ==
  \E i \in 1..Len(reqs), result \in results :
    /\ pc[i] = "invoking"
    /\ reqs[i].proto = "rest"
    /\ Complete(i, "done", buses, [t |-> "return", value |-> result],
                <<RestSuccess(clock, RestResultText(result))>>)

\* workflow.invoke throws to POST /message/send; the read of error.message
\* in the catch throws when the thrown value is null or undefined
RestEngineThrow(errors) ==
  \E i \in 1..Len(reqs), error \in errors :
    /\ pc[i] = "invoking"
    /\ reqs[i].proto = "rest"
    /\ IF PropertyReadThrows(error)
       THEN Reject(i, buses, [t |-> "throw", value |-> error])
       ELSE Complete(i, "done", buses, [t |-> "throw", value |-> error],
                     <<RestFailure(MessageOf(error))>>)

\* Date.now() advances
Tick ==
  /\ process.state # "exited"
  /\ clock < MaxClock
  /\ clock' = clock + 1
  /\ UNCHANGED <<reqs, pc, ctx, buses, calls, resp, workflowConfig, taskStore,
                 process, agentCard>>

\* The server with up to MaxReq requests, any number of them in flight at the
\* same time.
Next ==
  \/ Len(reqs) < MaxReq /\ JsonRpcRequest(ConcurrentRpcRequests)
  \/ JsonRpcEngineReturn(ConcurrentResults)
  \/ JsonRpcEngineThrow(ConcurrentThrown)
  \/ Len(reqs) < MaxReq /\ RestMessageSend(ConcurrentRestRequests)
  \/ RestEngineReturn(ConcurrentResults)
  \/ RestEngineThrow(ConcurrentThrown)
  \/ Tick

Spec == Init /\ [][Next]_vars

\* The server handling one request, over all the inputs.
NextRequest ==
  \/ Len(reqs) = 0 /\ JsonRpcRequest(RpcRequests)
  \/ JsonRpcEngineReturn(EngineResults)
  \/ JsonRpcEngineThrow(ThrownValues)
  \/ Len(reqs) = 0 /\ RestMessageSend(RestRequests)
  \/ RestEngineReturn(EngineResults)
  \/ RestEngineThrow(ThrownValues)
  \/ Tick

SpecRequest == Init /\ [][NextRequest]_vars

\* One bus and the events published to it.
InitBus ==
  /\ reqs = <<>>
  /\ pc = <<>>
  /\ ctx = <<>>
  /\ buses = NewEventBus(<<>>)
  /\ calls = <<>>
  /\ resp = <<>>
  /\ clock = 0
  /\ taskStore = InMemoryTaskStore
  /\ process = Listening
  /\ workflowConfig = ServerConfig
  /\ agentCard = <<buildAgentCardFromConfig(workflowConfig,
                                            PortOf(workflowConfig))>>

Published(bus) == SelectSeq(bus.emitted, LAMBDA e : e.name = "event")

BusPublish ==
  \E event \in BusEvents :
    /\ Len(Published(buses[1])) < MaxEvents
    /\ buses' = [buses EXCEPT ![1] = publish(@, event)]
    /\ UNCHANGED <<reqs, pc, ctx, calls, resp, clock, workflowConfig, taskStore,
                 process, agentCard>>

BusFinished ==
  /\ \A k \in 1..Len(buses[1].emitted) : buses[1].emitted[k].name # "finished"
  /\ buses' = [buses EXCEPT ![1] = finished(@)]
  /\ UNCHANGED <<reqs, pc, ctx, calls, resp, clock, workflowConfig, taskStore,
                 process, agentCard>>

NextBus == BusPublish \/ BusFinished

SpecBus == InitBus /\ [][NextBus]_vars

\* The agent card built at startup from a configuration.
InitCard ==
  /\ reqs = <<>>
  /\ pc = <<>>
  /\ ctx = <<>>
  /\ buses = <<>>
  /\ calls = <<>>
  /\ resp = <<>>
  /\ clock = 0
  /\ taskStore = InMemoryTaskStore
  /\ process = Starting
  /\ workflowConfig \in Configs
  /\ agentCard = <<>>

BuildCard ==
  /\ agentCard = <<>>
  /\ agentCard' = <<buildAgentCardFromConfig(workflowConfig,
                                             PortOf(workflowConfig))>>
  /\ UNCHANGED <<reqs, pc, ctx, buses, calls, resp, clock, workflowConfig,
                 taskStore, process>>

NextCard == BuildCard

SpecCard == InitCard /\ [][NextCard]_vars

\* The executor on its own: the holder of the AgentExecutor (the request
\* handler it is given to) calls execute once and may call cancelTask with
\* the bus of that execution at any time.
ExecutorCall(message, contextId) ==
  [proto |-> "executor", id |-> Undefined, method |-> Undefined,
   hasParams |-> TRUE, message |-> message, contextId |-> contextId,
   sessionId |-> Undefined]

ExecutorCalls ==
  {ExecutorCall(message, contextId) :
     message \in {Hello, BareMessage},
     contextId \in {Undefined, Str("ctx-1")}}

\* agentExecutor.execute(requestContext, eventBus), up to
\* `await workflow.invoke(...)`
Execute(executions) ==
  \E req \in executions :
    LET requestContext ==
          [taskId |-> "task-a", contextId |-> req.contextId,
           bus |-> Len(NewEventBus(buses))]
    IN Accept(req, "invoking", requestContext, NewEventBus(buses),
              <<InvokeCall(Or(requestContext.contextId, Str("default")),
                           String(Or(TextContent(req.message), Str(""))))>>,
              <<>>)

\* workflow.invoke returns to execute
ExecuteReturn(results) ==
  \E i \in 1..Len(reqs), result \in results :
    /\ pc[i] = "invoking"
    /\ reqs[i].proto = "executor"
    /\ Complete(i, "done",
                [buses EXCEPT ![ctx[i].bus] = executeReturn(@, result, clock)],
                [t |-> "return", value |-> result], <<>>)

\* workflow.invoke throws to execute, which throws again to its caller
ExecuteThrow(errors) ==
  \E i \in 1..Len(reqs), error \in errors :
    /\ pc[i] = "invoking"
    /\ reqs[i].proto = "executor"
    /\ Complete(i, "rejected",
                [buses EXCEPT ![ctx[i].bus] = executeCatch(@, error, clock)],
                [t |-> "throw", value |-> error], <<>>)

\* agentExecutor.cancelTask(taskId, eventBus): a log line and
\* eventBus.finished()
cancelTask(taskId, eventBus) == finished(eventBus)

\* cancelTask is called with the bus of execution i
CancelTask ==
  \E i \in 1..Len(reqs) :
    /\ reqs[i].proto = "executor"
    /\ Len(buses[ctx[i].bus].emitted) < MaxEvents
    /\ buses' = [buses EXCEPT
                   ![ctx[i].bus] = cancelTask(ctx[i].taskId, @)]
    /\ UNCHANGED <<reqs, pc, ctx, calls, resp, clock, workflowConfig,
                   taskStore, process, agentCard>>

NextExecutor ==
  \/ Len(reqs) = 0 /\ Execute(ExecutorCalls)
  \/ ExecuteReturn(EngineResults)
  \/ ExecuteThrow(ThrownValues)
  \/ CancelTask
  \/ Tick

SpecExecutor == Init /\ [][NextExecutor]_vars

\* The process from the call of listen to its exit, with requests, health
\* checks and termination signals.
ServerErrors == {"EADDRINUSE", "EACCES"}

\* serverOnError with a fault: an occupied port makes the server listen
\* again instead of ending the process
serverOnErrorRetry(proc, error) ==
  IF error = "EADDRINUSE"
  THEN [proc EXCEPT !.error = error, !.listens = @ + 1]
  ELSE exit([proc EXCEPT !.error = error], 1)

\* server.on("error", ...): process.exit(1) whatever the error
serverOnError(proc, error) == exit([proc EXCEPT !.error = error], 1)

\* gracefulShutdown: server.close(...), which stops the listener at once
gracefulShutdown(proc, signal) ==
  [proc EXCEPT !.state = "closing", !.signal = signal]

\* Health with a fault: the uptime is left out of the body
HealthWithoutUptime(card, uptime) ==
  [status |-> 200,
   body |-> [name |-> card.name, status |-> "running",
             protocolVersion |-> card.protocolVersion,
             endpoints |-> [agentCard |-> "/.well-known/agent.json",
                            messageSend |-> "/message/send",
                            tasks |-> "/tasks"]]]

\* the response of GET /health; uptime is process.uptime()
Health(card, uptime) ==
  [status |-> 200,
   body |-> [name |-> card.name, status |-> "running",
             protocolVersion |-> card.protocolVersion,
             uptime |-> uptime,
             endpoints |-> [agentCard |-> "/.well-known/agent.json",
                            messageSend |-> "/message/send",
                            tasks |-> "/tasks"]]]

HealthRequest ==
  [proto |-> "health", id |-> Undefined, method |-> Undefined,
   hasParams |-> FALSE, message |-> UndefinedMessage, contextId |-> Undefined,
   sessionId |-> Undefined]

ProcessRpcRequests ==
  {JsonRpcRequestBody(Num("1"), Str("message/send"), TRUE, Hello, Undefined),
   JsonRpcRequestBody(Str("req-7"), Str("message/send"), FALSE,
                      UndefinedMessage, Undefined)}

ProcessRestRequests == {RestRequestBody(Hello, Undefined)}

ProcessResults == {r \in EngineResults : r.t = "string"}

ProcessThrown ==
  {e \in ThrownValues : (e.t = "Error" /\ e.v # "") \/ e.t = "undefined"}

InitProcess ==
  /\ reqs = <<>>
  /\ pc = <<>>
  /\ ctx = <<>>
  /\ buses = <<>>
  /\ calls = <<>>
  /\ resp = <<>>
  /\ clock = 0
  /\ taskStore = InMemoryTaskStore
  /\ process = Starting
  /\ workflowConfig = ServerConfig
  /\ agentCard = <<buildAgentCardFromConfig(workflowConfig,
                                            PortOf(workflowConfig))>>

\* the listener is bound: the callback of listen runs
Listen ==
  /\ process.state = "starting"
  /\ process' = [process EXCEPT !.state = "listening"]
  /\ UNCHANGED <<reqs, pc, ctx, buses, calls, resp, clock, workflowConfig,
                 taskStore, agentCard>>

\* binding fails: the server emits "error"
ServerError ==
  \E error \in ServerErrors :
    /\ process.state = "starting"
    /\ process' = serverOnError(process, error)
    /\ UNCHANGED <<reqs, pc, ctx, buses, calls, resp, clock, workflowConfig,
                   taskStore, agentCard>>

\* SIGINT or SIGTERM is delivered to the running server
Signal ==
  \E signal \in {"SIGINT", "SIGTERM"} :
    /\ process.state \in {"listening", "closing"}
    /\ process' = gracefulShutdown(process, signal)
    /\ UNCHANGED <<reqs, pc, ctx, buses, calls, resp, clock, workflowConfig,
                   taskStore, agentCard>>

\* the callback of server.close: every connection has ended, that is, every
\* request has been answered; process.exit(0)
ServerClosed ==
  /\ process.state = "closing"
  /\ \A i \in 1..Len(reqs) : pc[i] = "done"
  /\ process' = exit(process, 0)
  /\ UNCHANGED <<reqs, pc, ctx, buses, calls, resp, clock, workflowConfig,
                 taskStore, agentCard>>

\* GET /health
GetHealth ==
  Accept(HealthRequest, "done", NoCtx, buses, <<>>,
         <<Health(agentCard[1], clock)>>)

NextProcess ==
  \/ Listen
  \/ ServerError
  \/ Len(reqs) < MaxReq /\ JsonRpcRequest(ProcessRpcRequests)
  \/ JsonRpcEngineReturn(ProcessResults)
  \/ JsonRpcEngineThrow(ProcessThrown)
  \/ Len(reqs) < MaxReq /\ RestMessageSend(ProcessRestRequests)
  \/ RestEngineReturn(ProcessResults)
  \/ RestEngineThrow(ProcessThrown)
  \/ Len(reqs) < MaxReq /\ GetHealth
  \/ Signal
  \/ ServerClosed
  \/ Tick

SpecProcess == InitProcess /\ [][NextProcess]_vars

----------------------------------------------------------------------------
(* Text extraction on both paths: message/send requests over the same
   messages arrive at POST / and at POST /message/send *)

\* a part { type: "text", text } of the older part format
TypedTextPart(s) == [kind |-> "", type |-> "text", text |-> Str(s)]

TextMessages ==
  {Message(parts) :
     parts \in {<<TextPart("hello"), TextPart("there ")>>,
                <<TextPart("b"), FilePart, TypedTextPart("a")>>,
                <<FilePart, TextPart(" a")>>,
                <<TextPart(""), TextPart("x")>>,
                <<TypedTextPart("a b")>>,
                <<TextPart(" ")>>,
                <<FilePart>>}}

TextRpcRequests ==
  {JsonRpcRequestBody(Num("1"), Str("message/send"), TRUE, message,
                      Str("ctx-1")) : message \in TextMessages}

TextRestRequests ==
  {RestRequestBody(message, Undefined) : message \in TextMessages}

NextText ==
  \/ Len(reqs) < MaxReq /\ JsonRpcRequest(TextRpcRequests)
  \/ Len(reqs) < MaxReq /\ RestMessageSend(TextRestRequests)

SpecText == Init /\ [][NextText]_vars

----------------------------------------------------------------------------
(* Start-up: main calls runA2AServer, which loads the configuration, builds
   the engine and only then creates the application and calls listen *)

\* the file named on the command line: whether it exists, whether its text
\* parses as JSON, which of the required fields its object carries, and the
\* config field of that object
ConfigFile(port, name, present) ==
  [exists |-> TRUE, parses |-> TRUE,
   stateAnnotation |-> "stateAnnotation" \in present,
   annotation |-> "annotation" \in present,
   nodes |-> "nodes" \in present,
   edges |-> "edges" \in present,
   config |-> [ServerConfig EXCEPT !.name = name, !.a2aEndpoint.port = port]]

RequiredFields == {"stateAnnotation", "annotation", "nodes", "edges"}

ConfigFiles ==
  {[ConfigFile(0, Undefined, {}) EXCEPT !.exists = FALSE, !.parses = FALSE],
   [ConfigFile(0, Undefined, {}) EXCEPT !.parses = FALSE]}
  \cup
  {ConfigFile(port, name, RequiredFields) :
     port \in {0, 8080, 8081}, name \in {Undefined, Str("research")}}
  \cup
  {ConfigFile(9001, Str("research"), RequiredFields \ {"stateAnnotation"}),
   ConfigFile(9002, Str("research"), RequiredFields \ {"annotation"}),
   ConfigFile(9003, Str("research"), RequiredFields \ {"nodes"}),
   ConfigFile(9004, Str("research"), RequiredFields \ {"edges"}),
   ConfigFile(9005, Str("research"), {})}

\* loadWorkflowConfig with a fault: the required fields are not tested
loadWorkflowConfigUnvalidated(file) ==
  IF ~file.exists \/ ~file.parses
  THEN [threw |-> TRUE, config |-> Undefined]
  ELSE [threw |-> FALSE, config |-> file.config]

\* loadWorkflowConfig: throws when the file is missing, when JSON.parse
\* throws and when a required field is missing or falsy
loadWorkflowConfig(file) ==
  IF ~file.exists THEN [threw |-> TRUE, config |-> Undefined]
  ELSE IF ~file.parses THEN [threw |-> TRUE, config |-> Undefined]
  ELSE IF \/ ~file.stateAnnotation \/ ~file.annotation
          \/ ~file.nodes \/ ~file.edges
  THEN [threw |-> TRUE, config |-> Undefined]
  ELSE [threw |-> FALSE, config |-> file.config]

\* the process when main calls runA2AServer: nothing loaded, listen not
\* called
Launched == [Starting EXCEPT !.state = "loading", !.listens = 0]

\* an error thrown by runA2AServer reaches the catch of main:
\* process.exit(1)
mainCatch(proc, error) == exit([proc EXCEPT !.error = error], 1)

InitStartup ==
  /\ reqs = <<>>
  /\ pc = <<>>
  /\ ctx = <<>>
  /\ buses = <<>>
  /\ calls = <<>>
  /\ resp = <<>>
  /\ clock = 0
  /\ taskStore = InMemoryTaskStore
  /\ process = Launched
  /\ workflowConfig = Undefined
  /\ agentCard = <<>>

\* const workflowConfig = loadWorkflowConfig(configPath)
LoadConfig ==
  \E file \in ConfigFiles :
    LET loaded == loadWorkflowConfig(file)
    IN /\ process.state = "loading"
       /\ IF loaded.threw
          THEN /\ process' = mainCatch(process,
                               "Failed to load workflow configuration")
               /\ UNCHANGED workflowConfig
          ELSE /\ process' = [process EXCEPT !.state = "building"]
               /\ workflowConfig' = loaded.config
       /\ UNCHANGED <<reqs, pc, ctx, buses, calls, resp, clock, taskStore,
                      agentCard>>

\* await workflow.build() settles: when it resolves, runA2AServer builds the
\* card, the executor, the application and its routes and calls listen; when
\* it rejects, the error goes to the catch of main
BuildEngine ==
  \E built \in BOOLEAN :
    /\ process.state = "building"
    /\ IF built
       THEN /\ process' = [process EXCEPT !.state = "starting",
                                          !.listens = @ + 1]
            /\ agentCard' = <<buildAgentCardFromConfig(
                                workflowConfig, PortOf(workflowConfig))>>
       ELSE /\ process' = mainCatch(process, "workflow.build")
            /\ UNCHANGED agentCard
    /\ UNCHANGED <<reqs, pc, ctx, buses, calls, resp, clock, workflowConfig,
                   taskStore>>

NextStartup ==
  \/ LoadConfig
  \/ BuildEngine
  \/ Listen
  \/ ServerError
  \/ Len(reqs) < MaxReq /\ GetHealth
  \/ Signal
  \/ ServerClosed
  \/ Tick

SpecStartup == InitStartup /\ [][NextStartup]_vars

----------------------------------------------------------------------------
(* Routing: the layers of the Express application in the order of their
   registration, and the dispatch of a request to the first layer that
   matches its method and path *)

\* one layer of app._router.stack that answers method and path; route tells
\* whether the layer is a route of the application itself (layer.route is
\* set) or sits inside a router mounted with app.use
Layer(route, method, path, handler) ==
  [route |-> route, method |-> method, path |-> path, handler |-> handler]

AgentCardPath == "/.well-known/agent.json"

\* what appBuilder.setupRoutes(app) of the SDK adds to the application: its
\* agent card and JSON-RPC routes, as routes of the application or inside a
\* mounted router, or nothing
SdkRouteSets ==
  {<<>>,
   <<Layer(TRUE, "GET", AgentCardPath, "sdk.card"),
     Layer(TRUE, "POST", "/", "sdk.jsonrpc")>>,
   <<Layer(FALSE, "GET", AgentCardPath, "sdk.card"),
     Layer(FALSE, "POST", "/", "sdk.jsonrpc")>>}

\* the manual routes, registered when no route of the application has the
\* path of the agent card
ManualRoutes(stack) ==
  IF \E k \in 1..Len(stack) :
       stack[k].route /\ stack[k].path = AgentCardPath
  THEN <<>>
  ELSE <<Layer(TRUE, "GET", AgentCardPath, "manual.card"),
         Layer(TRUE, "POST", "/message/send", "rest")>>

\* RouteTable with a fault: the routes of the SDK are set up before
\* app.post("/") is registered
RouteTableSdkFirst(sdkRoutes) ==
  LET stack == <<Layer(TRUE, "GET", "/health", "health")>> \o sdkRoutes
                 \o <<Layer(TRUE, "POST", "/", "jsonrpc")>>
  IN stack \o ManualRoutes(stack)

\* the stack after runA2AServer has registered everything: GET /health,
\* POST /, the routes of the SDK, the manual routes
RouteTable(sdkRoutes) ==
  LET stack == <<Layer(TRUE, "GET", "/health", "health"),
                 Layer(TRUE, "POST", "/", "jsonrpc")>> \o sdkRoutes
  IN stack \o ManualRoutes(stack)

\* the handler that answers method and path: that of the first matching
\* layer, none when no layer matches
Dispatch(stack, method, path) ==
  LET matching == {k \in 1..Len(stack) :
                     stack[k].method = method /\ stack[k].path = path}
  IN IF matching = {} THEN ""
     ELSE stack[CHOOSE k \in matching : \A j \in matching : k <= j].handler

\* a request with this method and path
HttpRequest(method, path) ==
  [proto |-> "http", method |-> method, path |-> path]

HttpRequests ==
  {HttpRequest(method, path) :
     method \in {"GET", "POST", "DELETE"},
     path \in {"/", "/health", AgentCardPath, "/message/send", "/tasks/1",
               "/nope"}}

\* the listening server with its stack of layers
Serving(stack) ==
  [state |-> "listening", exitCode |-> -1, listens |-> 1, error |-> "",
   signal |-> "", router |-> stack]

InitRoute ==
  /\ reqs = <<>>
  /\ pc = <<>>
  /\ ctx = <<>>
  /\ buses = <<>>
  /\ calls = <<>>
  /\ resp = <<>>
  /\ clock = 0
  /\ taskStore = InMemoryTaskStore
  /\ process \in {Serving(RouteTable(sdkRoutes)) : sdkRoutes \in SdkRouteSets}
  /\ workflowConfig = ServerConfig
  /\ agentCard = <<buildAgentCardFromConfig(workflowConfig,
                                            PortOf(workflowConfig))>>

\* a request is dispatched: its handler answers it, and Express answers 404
\* when no layer matches
Route ==
  \E req \in HttpRequests :
    LET handler == Dispatch(process.router, req.method, req.path)
    IN Accept(req, "done", NoCtx, buses, <<>>,
              <<[status |-> IF handler = "" THEN 404 ELSE 200,
                 handler |-> handler]>>)

NextRoute ==
  \/ Len(reqs) < MaxReq /\ Route
  \/ Tick

SpecRoute == InitRoute /\ [][NextRoute]_vars

----------------------------------------------------------------------------
(* Requests arriving at both handlers while the engine calls of earlier
   JSON-RPC requests are under way or have returned *)

NextArrivals ==
  \/ Len(reqs) < MaxReq /\ JsonRpcRequest(ConcurrentRpcRequests)
  \/ Len(reqs) < MaxReq /\ RestMessageSend(ConcurrentRestRequests)
  \/ JsonRpcEngineReturn(ConcurrentResults)
  \/ Tick

SpecArrivals == Init /\ [][NextArrivals]_vars

----------------------------------------------------------------------------
(* Properties *)

Requests == 1..Len(reqs)

IsRpc(i) == reqs[i].proto = "rpc"

\* the id of a response envelope; a key left out of the JSON is undefined
IdOf(body) == IF "id" \in DOMAIN body THEN body.id ELSE Undefined

HasResult(body) == "result" \in DOMAIN body
HasError(body) == "error" \in DOMAIN body

\* request i is a message/send that got a result envelope
SendSucceeded(i) ==
  /\ IsRpc(i)
  /\ reqs[i].method = Str("message/send")
  /\ Len(resp[i]) = 1
  /\ HasResult(resp[i][1].body)

\* request i got exactly one response, an error envelope with this code and
\* without a result
AnsweredWithError(i, code) ==
  /\ Len(resp[i]) = 1
  /\ HasError(resp[i][1].body)
  /\ resp[i][1].body.error.code = code
  /\ ~HasResult(resp[i][1].body)

\* C1: every response of POST / carries the id of its request unchanged,
\* whatever the outcome (result, -32602, -32601, -32603, agent card).
C1_IdEchoed ==
  \A i \in Requests :
    IsRpc(i) =>
      \A k \in 1..Len(resp[i]) : IdOf(resp[i][k].body) = reqs[i].id

\* an engine failure answered with -32603 under a string id
C1_Witness ==
  \E i \in Requests :
    /\ IsRpc(i)
    /\ reqs[i].id = Str("req-7")
    /\ AnsweredWithError(i, -32603)
    /\ calls[i][1].outcome.t = "throw"

\* C2: a successful message/send has result.thread_id equal to the contextId
\* supplied in params, for every supplied value, and equal to result.taskId
\* of the same response when contextId is omitted.
C2_ThreadIdIsContextId ==
  \A i \in Requests :
    SendSucceeded(i) =>
      LET result == resp[i][1].body.result
      IN IF ParamsContextId(reqs[i]) # Undefined
         THEN result.thread_id = ParamsContextId(reqs[i])
         ELSE result.thread_id = Str(result.taskId)

\* C3: a request whose method is neither message/send nor
\* agent/getAuthenticatedExtendedCard (or is missing) is answered with
\* -32601 and no result, and the engine is not invoked.
C3_MethodNotFound ==
  \A i \in Requests :
    (IsRpc(i)
     /\ reqs[i].method \notin {Str("message/send"),
                                Str("agent/getAuthenticatedExtendedCard")})
    => (AnsweredWithError(i, -32601) /\ calls[i] = <<>>)

\* a request without a method was answered
C3_Witness ==
  \E i \in Requests :
    /\ IsRpc(i)
    /\ reqs[i].method = Undefined
    /\ AnsweredWithError(i, -32601)
    /\ pc[i] = "done"

\* C4: a message/send whose params.message is absent or null (absent params
\* included) is answered with -32602 and no result.
C4_InvalidParams ==
  \A i \in Requests :
    (IsRpc(i)
     /\ reqs[i].method = Str("message/send")
     /\ ParamsMessage(reqs[i]).t \in {"undefined", "null"})
    => AnsweredWithError(i, -32602)

\* a message/send with params.message null was answered
C4_Witness ==
  \E i \in Requests :
    /\ IsRpc(i)
    /\ reqs[i].method = Str("message/send")
    /\ reqs[i].hasParams
    /\ reqs[i].message = NullMessage
    /\ AnsweredWithError(i, -32602)

\* C5: when workflow.invoke throws during a message/send, the response is an
\* error envelope with code -32603 whose message is the message of the
\* failure, for every kind of thrown value, and never a result envelope.
C5_EngineFailureMessage ==
  \A i \in Requests :
    (IsRpc(i) /\ calls[i] # <<>> /\ calls[i][1].outcome.t = "throw")
    => /\ AnsweredWithError(i, -32603)
       /\ resp[i][1].body.error.message
            = FailureMessage(calls[i][1].outcome.value)

\* the texts of the text parts of one event
EventTexts(event) ==
  LET textParts == SelectSeq(event.parts, IsTextPart)
  IN [k \in 1..Len(textParts) |-> JoinElem(textParts[k].text)]

IsAgentMessage(event) == event.kind = "message" /\ event.role = "agent"

\* the texts of the text parts of the agent messages among the events, in
\* order
RECURSIVE AgentTexts(_)
AgentTexts(events) ==
  IF Len(events) = 0 THEN <<>>
  ELSE (IF IsAgentMessage(events[1].event) THEN EventTexts(events[1].event)
        ELSE <<>>) \o AgentTexts(Tail(events))

\* C6: getResponse() is the empty string when no agent message was
\* published, and otherwise the texts of all text parts of all published
\* agent messages in publish order with a single space between every two
\* consecutive texts, also between the texts of two different events.
C6_SpaceJoinedResponse ==
  \A b \in 1..Len(buses) :
    getResponse(buses[b]) = Join(AgentTexts(Published(buses[b])))

\* C7: a published event changes the accumulated text only if it is an agent
\* message with text parts; any other event leaves the text unchanged.
C7_OnlyAgentMessagesCount ==
  [][\A b \in 1..Len(buses) :
       getResponse(buses'[b]) # getResponse(buses[b]) =>
         LET last == buses'[b].emitted[Len(buses'[b].emitted)]
         IN /\ Len(buses'[b].emitted) = Len(buses[b].emitted) + 1
            /\ last.name = "event"
            /\ IsAgentMessage(last.event)
            /\ last.event.hasParts
            /\ Len(SelectSeq(last.event.parts, IsTextPart)) > 0]_vars

\* a user message with text, an agent event of another kind with text and an
\* agent message without text parts were published and the text is still
\* empty
C7_Witness ==
  LET events == Published(buses[1])
  IN /\ Len(buses) = 1
     /\ getResponse(buses[1]) = ""
     /\ \E k \in 1..Len(events) :
          /\ events[k].event.kind = "message"
          /\ events[k].event.role = "user"
          /\ EventTexts(events[k].event) = <<"a">>
     /\ \E k \in 1..Len(events) :
          /\ events[k].event.kind = "status-update"
          /\ events[k].event.role = "agent"
          /\ EventTexts(events[k].event) = <<"a">>
     /\ \E k \in 1..Len(events) :
          /\ IsAgentMessage(events[k].event)
          /\ events[k].event.parts = <<FilePart>>

\* C8: with requests in flight at the same time each message/send has its
\* own bus, and the result text of a response is the text published for that
\* request's own engine result, with nothing from another request.
C8_OwnBusOwnText ==
  /\ \A i, j \in Requests :
       (i # j /\ ctx[i].bus # 0 /\ ctx[j].bus # 0) => ctx[i].bus # ctx[j].bus
  /\ \A i \in Requests :
       SendSucceeded(i) =>
         resp[i][1].body.result.result
           = JoinElem(ResponseTextOf(calls[i][1].outcome.value))

\* the second request was answered while the first is still in flight
C8_Witness ==
  /\ Len(reqs) = 2
  /\ IsRpc(1) /\ pc[1] = "invoking"
  /\ SendSucceeded(2)
  /\ resp[2][1].body.result.result = "world"
  /\ buses[ctx[1].bus].emitted = <<>>

\* the request supplies no context or session identifier
NoIdentifier(req) ==
  IF req.proto = "rpc" THEN ParamsContextId(req) = Undefined
  ELSE req.sessionId = Undefined

\* C9: on both message-send paths (POST / and POST /message/send), when the
\* caller supplies no identifier the thread key of the engine call is the
\* identifier generated for that request, so two requests without an
\* identifier never run under the same thread key.
C9_FreshThreadKey ==
  /\ \A i \in Requests :
       (NoIdentifier(reqs[i]) /\ calls[i] # <<>>) =>
         calls[i][1].thread_id = Str(ctx[i].taskId)
  /\ \A i, j \in Requests :
       (i # j /\ NoIdentifier(reqs[i]) /\ NoIdentifier(reqs[j])
        /\ calls[i] # <<>> /\ calls[j] # <<>>)
       => calls[i][1].thread_id # calls[j][1].thread_id

\* the agentCard of the configuration provides every field
ProvidesEveryField(configCard) ==
  /\ \A f \in {"name", "description", "protocolVersion", "version", "url",
                "defaultInputModes", "defaultOutputModes", "skills"} :
       configCard[f] # Undefined
  /\ configCard.hasCapabilities
  /\ \A f \in DOMAIN configCard.capabilities :
       configCard.capabilities[f] # Undefined

\* C10: the card built from a configuration whose agentCard provides every
\* field equals that agentCard field for field, for every value of the
\* fields, capability flags set to false included.
C10_ExplicitCardRoundTrip ==
  \A k \in 1..Len(agentCard) :
    LET configCard == workflowConfig.a2aEndpoint.agentCard
    IN (workflowConfig.a2aEndpoint.hasAgentCard
        /\ ProvidesEveryField(configCard))
       => /\ \A f \in {"name", "description", "protocolVersion", "version",
                        "url", "defaultInputModes", "defaultOutputModes",
                        "skills"} :
               agentCard[k][f] = configCard[f]
          /\ \A f \in DOMAIN configCard.capabilities :
               agentCard[k].capabilities[f] = configCard.capabilities[f]

\* C11: a field the explicit agentCard omits is taken from the synthesized
\* default: name and description from a2aEndpoint, then config, then the
\* built-in text; url from the port; modes ["text/plain"]; streaming and
\* pushNotifications false, stateTransitionHistory true.  The name and the
\* description of the built card are never undefined.
C11_OmittedFieldsDefaulted ==
  \A k \in 1..Len(agentCard) :
    LET config == workflowConfig
        a2aConfig == config.a2aEndpoint
        configCard == a2aConfig.agentCard
        card == agentCard[k]
    IN a2aConfig.hasAgentCard
       => /\ configCard.name = Undefined
               => card.name = Or(a2aConfig.name,
                                 Or(config.name, Str("WorkflowAgent")))
          /\ configCard.description = Undefined
               => card.description =
                    Or(a2aConfig.description,
                       Or(config.description,
                          Str("A workflow agent that processes tasks through multiple steps")))
          /\ configCard.url = Undefined
               => card.url = LocalUrl(PortOf(config))
          /\ configCard.defaultInputModes = Undefined
               => card.defaultInputModes = Arr("text/plain")
          /\ configCard.defaultOutputModes = Undefined
               => card.defaultOutputModes = Arr("text/plain")
          /\ CapabilityOf(configCard, "streaming") = Undefined
               => card.capabilities.streaming = Bool("false")
          /\ CapabilityOf(configCard, "pushNotifications") = Undefined
               => card.capabilities.pushNotifications = Bool("false")
          /\ CapabilityOf(configCard, "stateTransitionHistory") = Undefined
               => card.capabilities.stateTransitionHistory = Bool("true")
          /\ card.name # Undefined
          /\ card.description # Undefined

\* C12: the card built from any configuration, with or without an agentCard
\* and whichever of its fields are present, has a protocolVersion and
\* default input and output modes that are neither undefined nor null.
C12_CardHasVersionAndModes ==
  \A k \in 1..Len(agentCard) :
    \A f \in {"protocolVersion", "defaultInputModes", "defaultOutputModes"} :
      agentCard[k][f] \notin {Undefined, Null}

\* an agentCard with a null protocolVersion and null modes was built into a
\* card with the defaults
C12_Witness ==
  /\ Len(agentCard) = 1
  /\ workflowConfig.a2aEndpoint.hasAgentCard
  /\ workflowConfig.a2aEndpoint.agentCard.protocolVersion = Null
  /\ workflowConfig.a2aEndpoint.agentCard.defaultInputModes = Null
  /\ workflowConfig.a2aEndpoint.agentCard.defaultOutputModes = Null
  /\ agentCard[1].protocolVersion = Str("0.3.0")
  /\ agentCard[1].defaultInputModes = Arr("text/plain")
  /\ agentCard[1].defaultOutputModes = Arr("text/plain")

\* the value workflow.invoke returned to request i
Returned(i) == calls[i][Len(calls[i])].outcome.value

\* request i called workflow.invoke and the call returned
EngineReturned(i) ==
  /\ Len(calls[i]) > 0
  /\ calls[i][Len(calls[i])].outcome.t = "return"

\* C13: the response text of message/send is the engine result itself when
\* it is a string, the content of the last messages entry when that content
\* is text, and the JSON serialization of the whole result when that content
\* is an object or an array or when the messages sequence is empty.
C13_ResponseTextRule ==
  \A i \in Requests :
    (SendSucceeded(i) /\ EngineReturned(i))
      => LET result == Returned(i)
             text == resp[i][1].body.result.result
             lastMessage == result.messages[Len(result.messages)]
         IN /\ result.t = "string" => text = result.v
            /\ (result.hasMessages /\ Len(result.messages) = 0)
                 => text = result.json
            /\ (result.hasMessages /\ Len(result.messages) > 0
                 /\ lastMessage.t = "object")
                 => /\ lastMessage.content.t = "string"
                         => text = lastMessage.content.v
                    /\ lastMessage.content.t \in {"object", "array"}
                         => text = result.json

\* request j is a POST /message/send answered with HTTP 200
RestSucceeded(j) ==
  /\ reqs[j].proto = "rest"
  /\ Len(resp[j]) = 1
  /\ resp[j][1].status = 200

\* C14: for the same engine result, parts[0].text of the REST response
\* equals result.result of the JSON-RPC response.
C14_SameTextBothProtocols ==
  \A i, j \in Requests :
    (/\ SendSucceeded(i) /\ EngineReturned(i)
     /\ RestSucceeded(j) /\ EngineReturned(j)
     /\ Returned(i) = Returned(j))
      => LET part == resp[j][1].body.parts[1]
         IN /\ "text" \in DOMAIN part
            /\ part.text = Str(resp[i][1].body.result.result)

\* request j is a POST /message/send answered once, with HTTP 400 and this
\* error, without a call of workflow.invoke
RestRejected(j, error) ==
  /\ Len(resp[j]) = 1
  /\ resp[j][1].status = 400
  /\ resp[j][1].body = [error |-> error]
  /\ calls[j] = <<>>

\* C15: POST /message/send with a missing message, a message without parts
\* or an empty parts sequence is answered with HTTP 400 "Invalid message
\* format" and workflow.invoke is not called.
C15_InvalidMessageFormat ==
  \A j \in Requests :
    LET message == reqs[j].message
    IN (/\ reqs[j].proto = "rest"
        /\ \/ message.t \in {"undefined", "null"}
           \/ ~message.hasParts
           \/ message.parts = <<>>)
       => RestRejected(j, "Invalid message format")

\* an empty parts sequence was rejected
C15_Witness ==
  \E j \in Requests :
    /\ reqs[j].proto = "rest"
    /\ reqs[j].message = Message(<<>>)
    /\ RestRejected(j, "Invalid message format")

\* the parts of a message that are text parts holding a string with a
\* character other than a space
TextfulParts(message) ==
  {k \in 1..Len(message.parts) :
     LET part == message.parts[k]
     IN /\ part.kind = "text" \/ part.type = "text"
        /\ part.text.t = "string"
        /\ \E n \in 1..Len(part.text.v) :
             SubSeq(part.text.v, n, n) # " "}

\* C16: POST /message/send with a non-empty parts sequence that has no text
\* part, or only text parts of whitespace, is answered with HTTP 400 "No
\* text content found in message" and workflow.invoke is not called.
C16_NoTextContent ==
  \A j \in Requests :
    LET message == reqs[j].message
    IN (/\ reqs[j].proto = "rest"
        /\ message.t = "object"
        /\ message.hasParts
        /\ message.parts # <<>>
        /\ TextfulParts(message) = {})
       => RestRejected(j, "No text content found in message")

\* a message of whitespace text parts was rejected
C16_Witness ==
  \E j \in Requests :
    /\ reqs[j].proto = "rest"
    /\ reqs[j].message = Message(<<FilePart, TextPart(""), TextPart(" ")>>)
    /\ RestRejected(j, "No text content found in message")

\* C17: POST /message/send with non-empty text is answered with HTTP 200 and
\* {messageId, parts: [{kind: "text", text}]} when workflow.invoke returns,
\* and with HTTP 500 and {error, message} when it throws; nothing else is
\* produced once the call is over.
C17_RestOutcomeStatus ==
  \A j \in Requests :
    (reqs[j].proto = "rest" /\ Len(calls[j]) > 0 /\ pc[j] # "invoking")
      => LET outcome == calls[j][Len(calls[j])].outcome
             body == resp[j][1].body
         IN /\ Len(resp[j]) = 1
            /\ outcome.t = "return"
                 => /\ resp[j][1].status = 200
                    /\ DOMAIN body = {"messageId", "parts"}
                    /\ Len(body.parts) = 1
                    /\ DOMAIN body.parts[1] = {"kind", "text"}
                    /\ body.parts[1].kind = "text"
                    /\ body.parts[1].text.t = "string"
            /\ outcome.t = "throw"
                 => /\ resp[j][1].status = 500
                    /\ DOMAIN body = {"error", "message"}

\* request i is a JSON-RPC agent/getAuthenticatedExtendedCard
IsCardRequest(i) ==
  IsRpc(i) /\ reqs[i].method = Str("agent/getAuthenticatedExtendedCard")

\* C18: agent/getAuthenticatedExtendedCard is answered with the agent card
\* as result whatever its params are, absent params included, and every
\* call is answered with the same card, the one built at startup.
C18_CardForEveryParams ==
  /\ \A i \in Requests :
       IsCardRequest(i)
         => /\ Len(resp[i]) = 1
            /\ resp[i][1].status = 200
            /\ HasResult(resp[i][1].body)
            /\ ~HasError(resp[i][1].body)
            /\ resp[i][1].body.result = agentCard[1]
            /\ resp[i][1].body.result =
                 buildAgentCardFromConfig(workflowConfig,
                                          PortOf(workflowConfig))
            /\ calls[i] = <<>>
  /\ \A i, j \in Requests :
       (IsCardRequest(i) /\ IsCardRequest(j))
         => resp[i][1].body.result = resp[j][1].body.result

\* two calls, one without params and one with params, got the same card
C18_Witness ==
  \E i, j \in Requests :
    /\ IsCardRequest(i) /\ ~reqs[i].hasParams
    /\ IsCardRequest(j) /\ reqs[j].hasParams
    /\ HasResult(resp[i][1].body)
    /\ resp[i][1].body.result = resp[j][1].body.result
    /\ resp[j][1].body.result.name = Str("research")

\* the identifiers of the tasks held by the task store
StoredTaskIds == {task.id : task \in taskStore}

\* C19: the taskId of every message/send result names a task that was saved
\* in the task store when the request came in, so that a later query or
\* cancel for it finds the task.
C19_TaskRegistered ==
  \A i \in Requests :
    /\ (IsRpc(i) /\ pc[i] = "invoking") => ctx[i].taskId \in StoredTaskIds
    /\ SendSucceeded(i) => resp[i][1].body.result.taskId \in StoredTaskIds

\* the requests that were given a task identifier
Tasked == {i \in Requests : ctx[i].taskId # ""}

HasPrefix(s, prefix) ==
  Len(s) >= Len(prefix) /\ SubSeq(s, 1, Len(prefix)) = prefix

Finished(bus) ==
  /\ bus.emitted # <<>>
  /\ bus.emitted[Len(bus.emitted)].name = "finished"

\* C29: a message/send result is built from getResponse() of the request's
\* bus only after finished has been signaled on that bus.
C29_ResponseAfterFinished ==
  \A i \in Requests :
    SendSucceeded(i)
      => /\ Finished(buses[ctx[i].bus])
         /\ resp[i][1].body.result.result = getResponse(buses[ctx[i].bus])

\* a result "hi" was sent from a finished bus
C29_Witness ==
  \E i \in Requests :
    /\ SendSucceeded(i)
    /\ Finished(buses[ctx[i].bus])
    /\ resp[i][1].body.result.result = "hi"

\* request i went through agentExecutor.execute
Executed(i) == IsRpc(i) /\ ctx[i].taskId # ""

\* the text of the user message of request i as execute extracts it
UserText(i) ==
  LET message == reqs[i].message
  IN IF message.hasParts THEN Trim(PartsText(message.parts)) ELSE ""

\* request i made one call of workflow.invoke, with the contextId of its
\* request context as thread_id and one user message holding its text
InvokedWithContext(i) ==
  /\ Len(calls[i]) = 1
  /\ calls[i][1].thread_id = ctx[i].contextId
  /\ calls[i][1].messages = <<[role |-> "user", content |-> UserText(i)]>>

\* C30 as stated: every call of workflow.invoke made by execute carries the
\* contextId of the request as thread_id and exactly one user message with
\* the text, and the thread_id is never "default".
C30_ThreadIdNeverDefault ==
  \A i \in Requests :
    Executed(i)
      => /\ InvokedWithContext(i)
         /\ calls[i][1].thread_id # Str("default")

\* C30, amended: as above, and the thread_id is "default" only when the
\* request itself gives "default" as its contextId.
C30_ThreadIdIsContextId ==
  \A i \in Requests :
    Executed(i)
      => /\ InvokedWithContext(i)
         /\ calls[i][1].thread_id = Str("default")
              => ParamsContextId(reqs[i]) = Str("default")

\* a request without contextId was run under its task identifier
C30_Witness ==
  \E i \in Requests :
    /\ Executed(i)
    /\ ParamsContextId(reqs[i]) = Undefined
    /\ calls[i][1].thread_id = Str(ctx[i].taskId)
    /\ calls[i][1].messages = <<[role |-> "user", content |-> "a"]>>

\* how many times finished was signaled on a bus
FinishedCount(bus) ==
  Len(SelectSeq(bus.emitted, LAMBDA e : e.name = "finished"))

IsExecution(i) == reqs[i].proto = "executor"

\* cancelTask was called for execution i while its engine call was in flight
CancelledInFlight(i) ==
  /\ IsExecution(i)
  /\ pc[i] = "invoking"
  /\ FinishedCount(buses[ctx[i].bus]) > 0

\* C21: cancelling a task whose execution is under way sets the state of
\* the task to canceled and signals finished on its bus, once; the engine
\* call stays in flight.
C21_CancelSetsCanceled ==
  \A i \in Requests :
    CancelledInFlight(i)
      => /\ \E task \in taskStore :
              task.id = ctx[i].taskId /\ task.state = "canceled"
         /\ FinishedCount(buses[ctx[i].bus]) = 1
         /\ calls[i][1].outcome.t = "pending"

\* C27: finished is signaled exactly once on the bus of every execution,
\* whether the engine returns or throws and whether or not cancelTask is
\* called on the bus before or after execute completes.
C27_FinishedExactlyOnce ==
  \A i \in Requests :
    IsExecution(i)
      => /\ FinishedCount(buses[ctx[i].bus]) <= 1
         /\ pc[i] # "invoking" => FinishedCount(buses[ctx[i].bus]) = 1

\* C28: on every bus nothing is published after finished was signaled,
\* also when cancelTask signals finished while the engine call of execute
\* is in flight.
C28_NoPublishAfterFinished ==
  \A b \in 1..Len(buses) :
    \A k, l \in 1..Len(buses[b].emitted) :
      (k < l /\ buses[b].emitted[k].name = "finished")
        => buses[b].emitted[l].name # "event"

\* C23: a failing request never ends the process and leaves the other
\* requests their own responses: the process exits only on a termination
\* signal, with no request left in flight, and every message/send result
\* is the text its own engine call returned.
C23_FailureStaysLocal ==
  /\ (process.state = "exited" /\ Len(reqs) > 0)
       => /\ process.signal # ""
          /\ process.exitCode = 0
          /\ \A i \in Requests : pc[i] # "invoking"
  /\ \A i \in Requests :
       (SendSucceeded(i) /\ Returned(i).t = "string")
         => resp[i][1].body.result.result = Returned(i).v

\* C24: once a termination signal has been received no new request is
\* accepted, and the process exits only with status 0 and only after every
\* request it had accepted has got its response.
C24_GracefulShutdown ==
  [][/\ process.state = "closing" => Len(reqs') = Len(reqs)
     /\ (process'.state = "exited" /\ process'.signal # "")
          => /\ process'.exitCode = 0
             /\ \A i \in 1..Len(reqs') : Len(resp'[i]) = 1]_vars

IsHealth(i) == reqs[i].proto = "health"

\* C25: every GET /health handled by the process is answered with HTTP 200,
\* status "running" and an uptime that is not negative, whatever the other
\* requests are doing.
C25_HealthRunning ==
  \A i \in Requests :
    IsHealth(i)
      => /\ Len(resp[i]) = 1
         /\ resp[i][1].status = 200
         /\ resp[i][1].body.status = "running"
         /\ "uptime" \in DOMAIN resp[i][1].body
         /\ resp[i][1].body.uptime >= 0

\* a health check was answered while an earlier message/send was in flight
C25_Witness ==
  \E i, j \in Requests :
    /\ j < i
    /\ pc[j] = "invoking"
    /\ IsHealth(i)
    /\ resp[i][1].status = 200
    /\ resp[i][1].body.status = "running"

\* C26: when binding fails because the port is in use the process exits
\* with a status other than 0, having called listen once and served nothing.
C26_BindFailureExits ==
  process.error = "EADDRINUSE"
    => /\ process.state = "exited"
       /\ process.exitCode > 0
       /\ process.listens = 1
       /\ reqs = <<>>

\* the process has exited with status 1 on an occupied port
C26_Witness ==
  /\ process.error = "EADDRINUSE"
  /\ process.state = "exited"
  /\ process.exitCode = 1

\* the texts of the text parts, in order, with one space between two
\* neighbours
RECURSIVE SpaceJoinedTexts(_)
SpaceJoinedTexts(parts) ==
  IF parts = <<>> THEN ""
  ELSE LET p == Head(parts)
           rest == Tail(parts)
           more == \E k \in 1..Len(rest) :
                     rest[k].kind = "text" \/ rest[k].type = "text"
       IN IF p.kind = "text" \/ p.type = "text"
          THEN p.text.v \o (IF more THEN " " ELSE "")
                        \o SpaceJoinedTexts(rest)
          ELSE SpaceJoinedTexts(rest)

\* s begins and ends with a character that is not a space, or is empty
Trimmed(s) ==
  Len(s) > 0 => SubSeq(s, 1, 1) # " " /\ SubSeq(s, Len(s), Len(s)) # " "

\* t is s without some spaces at its beginning and at its end
CutFrom(t, s) ==
  \E a \in 1..(Len(s) + 1), b \in 0..Len(s) :
    /\ t = SubSeq(s, a, b)
    /\ \A k \in (1..(a - 1)) \cup ((b + 1)..Len(s)) : SubSeq(s, k, k) = " "

\* the content of the user message request i handed to workflow.invoke
InvokedText(i) == calls[i][1].messages[1].content

\* C31: the text handed to the engine is the texts of the text parts of the
\* message, in order, joined by one space, without the spaces at both ends;
\* POST / and POST /message/send hand over the same text for the same parts.
C31_SameTextExtraction ==
  /\ \A i \in Requests :
       Len(calls[i]) > 0 =>
         /\ Trimmed(InvokedText(i))
         /\ CutFrom(InvokedText(i), SpaceJoinedTexts(reqs[i].message.parts))
  /\ \A i, j \in Requests :
       /\ IsRpc(i) /\ ~IsRpc(j)
       /\ reqs[i].message.parts = reqs[j].message.parts
       /\ Len(calls[j]) > 0
       => InvokedText(i) = InvokedText(j)

\* the same message, with a file part between two text parts, was handed to
\* the engine by both handlers
C31_Witness ==
  \E i, j \in Requests :
    /\ IsRpc(i) /\ ~IsRpc(j)
    /\ reqs[i].message = Message(<<TextPart("b"), FilePart,
                                   TypedTextPart("a")>>)
    /\ reqs[j].message = reqs[i].message
    /\ InvokedText(i) = "b a"
    /\ InvokedText(j) = "b a"

\* request i is a message/send to POST / whose message is an object from
\* which no text is extracted: no parts, no text part, or only spaces
EmptyTextSend(i) ==
  /\ IsRpc(i)
  /\ reqs[i].method = Str("message/send")
  /\ reqs[i].hasParams
  /\ reqs[i].message.t = "object"
  /\ \A k \in 1..Len(reqs[i].message.parts) :
       LET p == reqs[i].message.parts[k]
       IN (p.kind = "text" \/ p.type = "text") =>
            \A c \in 1..Len(p.text.v) : SubSeq(p.text.v, c, c) = " "

\* C32: a message/send to POST / whose message yields no text is not
\* rejected: workflow.invoke is called once, with content "", and once the
\* call is over the request has one response, the result envelope when the
\* call returned and the -32603 error envelope when it threw.
C32_EmptyTextInvokes ==
  \A i \in Requests :
    EmptyTextSend(i) =>
      /\ Len(calls[i]) = 1
      /\ calls[i][1].messages = <<[role |-> "user", content |-> ""]>>
      /\ calls[i][1].outcome.t = "pending" => resp[i] = <<>>
      /\ calls[i][1].outcome.t = "return" => SendSucceeded(i)
      /\ calls[i][1].outcome.t = "throw" => AnsweredWithError(i, -32603)

\* request i is a message/send to POST / whose engine call returned a value
\* that is neither a string nor an object with a messages array, and that
\* got a result envelope
OtherShapeAnswered(i) ==
  /\ SendSucceeded(i)
  /\ EngineReturned(i)
  /\ Returned(i).t # "string"
  /\ ~Returned(i).hasMessages

\* C33 as stated: an engine result that is neither a string nor an object
\* with a messages sequence yields its JSON serialization as response text.
C33_OtherShapesSerialized ==
  \A i \in Requests :
    OtherShapeAnswered(i) => resp[i][1].body.result.result = Returned(i).json

\* C33, amended: a plain object or an array yields its JSON serialization;
\* a number, a boolean, null or undefined yields the text String() gives it,
\* which is the JSON serialization for a boolean and for null, the decimal
\* text for a number and "undefined" for undefined; the text is never empty.
C33_OtherShapesText ==
  \A i \in Requests :
    OtherShapeAnswered(i) =>
      LET result == Returned(i)
          text == resp[i][1].body.result.result
      IN /\ result.t \in {"object", "array", "boolean", "null"}
              => text = result.json
         /\ result.t = "number" => text = result.v
         /\ result.t = "undefined" => text = "undefined"
         /\ text # ""

\* an engine call that returned undefined was answered with the text
\* "undefined"
C33_Witness ==
  \E i \in Requests :
    /\ OtherShapeAnswered(i)
    /\ Returned(i).t = "undefined"
    /\ resp[i][1].body.result.result = "undefined"

\* request i was turned down by the validation of its handler: -32602 or
\* -32601 from POST /, HTTP 400 from POST /message/send
RejectedByValidation(i) ==
  /\ Len(resp[i]) = 1
  /\ \/ IsRpc(i) /\ AnsweredWithError(i, -32602)
     \/ IsRpc(i) /\ AnsweredWithError(i, -32601)
     \/ reqs[i].proto = "rest" /\ resp[i][1].status = 400

\* C34: workflow.invoke is called at most once for a request: not at all
\* when validation turned the request down, and not a second time when the
\* call threw.
C34_InvokedAtMostOnce ==
  \A i \in Requests :
    /\ Len(calls[i]) <= 1
    /\ RejectedByValidation(i) => calls[i] = <<>>
    /\ (Len(calls[i]) > 0 /\ calls[i][1].outcome.t = "throw")
         => Len(calls[i]) = 1 /\ pc[i] # "invoking"

\* a message/send whose one call of workflow.invoke threw and which was
\* answered with -32603
C34_Witness ==
  \E i \in Requests :
    /\ Len(calls[i]) = 1
    /\ calls[i][1].outcome.t = "throw"
    /\ AnsweredWithError(i, -32603)

\* the message of a failure: the message of an Error, the text of any other
\* thrown value
FailureText(error) ==
  CASE error.t = "Error"     -> error.v
    [] error.t = "string"    -> error.v
    [] error.t = "null"      -> "null"
    [] error.t = "undefined" -> "undefined"

\* the engine call of request i, made through execute, threw
ExecuteFailed(i) ==
  /\ Executed(i)
  /\ Len(calls[i]) > 0
  /\ calls[i][1].outcome.t = "throw"

\* C39: when the engine call fails, execute publishes exactly one agent
\* message whose one text part is "Error: " followed by the failure's
\* message, then signals finished, and the failure has reached the caller
\* (the handler is no longer waiting); the text accumulated on the bus is
\* that error text alone.
C39_FailurePublishedThenFinished ==
  \A i \in Requests :
    ExecuteFailed(i) =>
      LET bus == buses[ctx[i].bus]
          text == "Error: " \o FailureText(calls[i][1].outcome.value)
      IN /\ Len(bus.emitted) = 2
         /\ bus.emitted[1].name = "event"
         /\ bus.emitted[1].event.kind = "message"
         /\ bus.emitted[1].event.role = "agent"
         /\ bus.emitted[1].event.parts =
              <<[kind |-> "text", type |-> "", text |-> Str(text)]>>
         /\ bus.emitted[2].name = "finished"
         /\ bus.responseText = text
         /\ pc[i] \in {"done", "rejected"}

\* the engine threw a value that is not an Error, and the bus holds its text
C39_Witness ==
  \E i \in Requests :
    /\ ExecuteFailed(i)
    /\ calls[i][1].outcome.value.t = "string"
    /\ buses[ctx[i].bus].responseText = "Error: oops"
    /\ Finished(buses[ctx[i].bus])

\* body is a JSON-RPC 2.0 response envelope with a result or an error, not
\* both
IsEnvelope(body) ==
  /\ "jsonrpc" \in DOMAIN body
  /\ body.jsonrpc = "2.0"
  /\ HasResult(body) # HasError(body)

\* C37: every request to POST / gets exactly one response envelope, with
\* jsonrpc "2.0" and either a result or an error: none while the engine call
\* is under way, one from then on.
C37_OneEnvelopePerRequest ==
  \A i \in Requests :
    IsRpc(i) =>
      /\ Len(resp[i]) <= 1
      /\ \A k \in 1..Len(resp[i]) : IsEnvelope(resp[i][k].body)
      /\ pc[i] # "invoking" => Len(resp[i]) = 1

\* request i is a message/send, to POST / or to POST /message/send, that
\* passed validation and called workflow.invoke
AcceptedSend(i) == reqs[i].proto \in {"rpc", "rest"} /\ Len(calls[i]) > 0

\* C38: an accepted message/send has its one response as soon as its engine
\* call has returned or thrown, and has none for as long as the call is
\* under way, whatever happens to the other requests.
C38_AnsweredOnceEngineDone ==
  \A i \in Requests :
    AcceptedSend(i) =>
      /\ calls[i][1].outcome.t \in {"return", "throw"} => Len(resp[i]) = 1
      /\ calls[i][1].outcome.t = "pending" => resp[i] = <<>>

\* a request is answered while the engine call of an earlier request is
\* still under way
C38_AnsweredWhileOtherWaits ==
  \E i, j \in Requests :
    /\ i < j
    /\ AcceptedSend(i) /\ calls[i][1].outcome.t = "pending"
    /\ AcceptedSend(j) /\ calls[j][1].outcome.t = "return"
    /\ Len(resp[j]) = 1

\* a step in which a request arrives and is turned down by validation
ValidationRejects ==
  /\ Len(reqs') = Len(reqs) + 1
  /\ LET n == Len(reqs')
     IN /\ Len(resp'[n]) = 1
        /\ \/ /\ reqs'[n].proto = "rpc"
              /\ HasError(resp'[n][1].body)
              /\ resp'[n][1].body.error.code \in {-32602, -32601}
           \/ /\ reqs'[n].proto = "rest"
              /\ resp'[n][1].status = 400

\* C40: a request turned down by validation (-32602 or -32601 from POST /,
\* HTTP 400 from POST /message/send) changes nothing but its own response:
\* workflow.invoke is not called for it, no event bus is created, published
\* to or finished, the task registry, the clock and the process are as
\* before, and the requests already there keep their state.
C40_RejectionChangesNothing ==
  [][ValidationRejects =>
       LET n == Len(reqs')
       IN /\ calls'[n] = <<>>
          /\ ctx'[n] = NoCtx
          /\ pc'[n] = "done"
          /\ buses' = buses
          /\ taskStore' = taskStore
          /\ UNCHANGED <<clock, process, workflowConfig, agentCard>>
          /\ \A i \in Requests :
               /\ reqs'[i] = reqs[i] /\ pc'[i] = pc[i] /\ ctx'[i] = ctx[i]
               /\ calls'[i] = calls[i] /\ resp'[i] = resp[i]]_vars

\* a request was turned down by validation while the engine call of an
\* earlier request was under way, and the bus of that request is untouched
C40_Witness ==
  \E i, j \in Requests :
    /\ i < j
    /\ pc[i] = "invoking"
    /\ buses[ctx[i].bus] = SimpleExecutionEventBus
    /\ RejectedByValidation(j)
    /\ Len(buses) = 1

\* the configuration of some file that exists, parses and carries the four
\* required fields
ValidConfig(config) ==
  \E file \in ConfigFiles :
    /\ file.exists /\ file.parses
    /\ file.stateAnnotation /\ file.annotation /\ file.nodes /\ file.edges
    /\ config = file.config

\* the process ended with a status other than 0 without a call of listen
FailedToStart(proc) ==
  proc.state = "exited" /\ proc.exitCode > 0 /\ proc.listens = 0

\* C35: listen is called only once the configuration has been loaded and
\* validated and build() has succeeded: loading ends either with a valid
\* configuration or with the process exiting non-zero, building ends either
\* with the one call of listen or with the process exiting non-zero, listen
\* is called in no other step, and a process that has exited stays as it is.
C35_ListenAfterBuild ==
  [][/\ process.state = "loading" /\ process' # process
          => \/ process'.state = "building" /\ process'.listens = 0
                /\ ValidConfig(workflowConfig')
             \/ FailedToStart(process')
     /\ process.state = "building" /\ process' # process
          => \/ process'.state = "starting" /\ process'.listens = 1
                /\ ValidConfig(workflowConfig)
             \/ FailedToStart(process')
     /\ process'.listens # process.listens => process.state = "building"
     /\ process'.state \in {"listening", "closing"} => process'.listens = 1
     /\ process.state = "exited" => process' = process]_vars

\* build() failed for a configuration that had loaded: the process exited
\* with status 1 and listen was never called
C35_Witness ==
  /\ ValidConfig(workflowConfig)
  /\ process.error = "workflow.build"
  /\ process.exitCode = 1
  /\ process.listens = 0

\* the paths for which the application has a layer
RegisteredPaths == {process.router[k].path : k \in 1..Len(process.router)}

\* C36: GET /health is answered by the health handler and GET
\* /.well-known/agent.json by an agent card handler, never by the JSON-RPC
\* handler of POST /; POST / is always answered by that handler, which is
\* registered before the routes of the SDK; a request to a path without a
\* route is answered with 404.
C36_RoutesDispatched ==
  \A i \in Requests :
    LET req == reqs[i]
        answer == resp[i][1]
    IN /\ (req.method = "GET" /\ req.path = "/health")
            => answer.handler = "health"
       /\ (req.method = "GET" /\ req.path = AgentCardPath)
            => answer.handler \in {"sdk.card", "manual.card"}
       /\ (req.method = "POST" /\ req.path = "/")
            => answer.handler = "jsonrpc"
       /\ req.path \notin RegisteredPaths
            => answer.status = 404 /\ answer.handler = ""

\* the SDK has registered a JSON-RPC route of its own, POST / went to the
\* handler registered before it, and a request to /nope got 404
C36_Witness ==
  /\ \E k \in 1..Len(process.router) :
       process.router[k].handler = "sdk.jsonrpc"
  /\ \E i, j \in Requests :
       /\ reqs[i] = HttpRequest("POST", "/")
       /\ resp[i][1].handler = "jsonrpc"
       /\ reqs[j] = HttpRequest("GET", "/nope")
       /\ resp[j][1].status = 404

====
